---- MODULE Spec2Model ----
(***************************************************************************)
(* Model of the GPX flyover player: FlyoverAnimation (playback controller, *)
(* distance index, track sampler, smoothers, camera composer), the GPXMap  *)
(* track provider / render surface it drives, the host's animation-frame   *)
(* queue and clock, and the part of VideoRecorder that drives the          *)
(* animation.                                                              *)
(*                                                                         *)
(* Numbers.  JavaScript doubles are modelled by integers in fixed units:   *)
(*   latitude / longitude  metres of arc from (0,0) (tracks lie near the   *)
(*                         equator, so both axes have the same scale)      *)
(*   elevation, altitude   metres                                          *)
(*   bearing               tenths of a degree, 0 .. 3599                   *)
(*   progress              PScale-ths, so progress 1.0 is PScale           *)
(*   time                  milliseconds                                    *)
(* Products are exact; a quotient is rounded to a whole unit.               *)
(* null is the empty sequence, a present value v is <<v>>.                 *)
(***************************************************************************)
EXTENDS Integers, Sequences, FiniteSets, TLC

\* ---------------------------------------------------------------- bounds
MaxTicks == 3        \* host frame periods the clock may advance
MaxPending == 2      \* outstanding requestAnimationFrame callbacks explored
MaxStepHist == 2     \* bearing-history length up to which stepToProgress is explored
PScale == 12         \* resolution of progress
FrameGap == 2000     \* milliseconds between two host frames
MaxTableLen == 5     \* longest cumulative-distance table findSegmentAtDistance is applied to
MaxTrackLen == 4     \* longest track the raw position is computed on
MaxFrames == 6       \* longest frame-by-frame recording explored, in frames
RecorderFps == 1     \* frames per second of the frame-by-frame recordings explored

\* ------------------------------------------------------ program constants
Deg == 10                       \* bearing units per degree
minTerrainClearance == 80
cameraDistance == 150
lookAtDistance == 30
losSamples == 30
sampleRadius == 500
immediateLookAheadM == 50
birdseyeLookAheadM == 50
baseSpeedMps == 160
MetresPerDegree == 111195       \* one degree of arc on the sphere of radius 6371000 m
LatLonDivisor == 111320         \* metersToLatLon's metres per degree

None == <<>>
Some(v) == <<v>>
IsNull(o) == o = <<>>
Val(o) == o[1]

Min(a, b) == IF a <= b THEN a ELSE b
Max(a, b) == IF a >= b THEN a ELSE b
Abs(a) == IF a < 0 THEN -a ELSE a

\* x * n / d, rounded toward zero
MulDiv(x, n, d) == IF x * n >= 0 THEN (x * n) \div d ELSE -((-(x * n)) \div d)

\* Math.sqrt, rounded down
RECURSIVE SqrtSearch(_, _, _)
SqrtSearch(n, lo, hi) ==
    IF lo >= hi THEN lo
    ELSE LET mid == (lo + hi + 1) \div 2
         IN IF mid * mid <= n THEN SqrtSearch(n, mid, hi) ELSE SqrtSearch(n, lo, mid - 1)
Sqrt(n) == SqrtSearch(n, 0, Min(n, 46340))

\* Math.sin / Math.cos of a bearing, times 1000 (Bhaskara's rational
\* approximation; exact at multiples of 90 degrees)
SinHalf(b) ==
    LET q == b * (180 * Deg - b)
    IN (400 * q) \div ((40500 * Deg * Deg - q) \div 10)
Sin1000(b) ==
    LET n == ((b % (360 * Deg)) + 360 * Deg) % (360 * Deg)
    IN IF n <= 180 * Deg THEN SinHalf(n) ELSE -SinHalf(n - 180 * Deg)
Cos1000(b) == Sin1000(b + 90 * Deg)

\* atan of n/d for 0 <= n <= d, d > 0, in tenths of a degree
AtanUnit(n, d) ==
    LET z == (n * 1000) \div d
    IN (z * (45 * Deg * 1000 + 156 * (1000 - z))) \div 1000000
\* Math.atan2(y, x) in tenths of a degree, in (-1800, 1800]
Atan2(y, x) ==
    LET ax == Abs(x)
        ay == Abs(y)
        a == IF ax = 0 /\ ay = 0 THEN 0
             ELSE IF ax >= ay THEN AtanUnit(ay, ax)
             ELSE 90 * Deg - AtanUnit(ax, ay)
    IN IF x >= 0 THEN (IF y >= 0 THEN a ELSE -a)
       ELSE (IF y >= 0 THEN 180 * Deg - a ELSE a - 180 * Deg)

\* ------------------------------------------------------------ track data
Pt(lat, ele) == [lat |-> lat, lon |-> 0, ele |-> ele]

TrackOne == <<Pt(0, 0)>>
TrackTwo == <<Pt(0, 0), Pt(640, 100)>>
TrackBack == <<Pt(0, 0), Pt(480, 100), Pt(0, 0)>>
TrackZero == <<Pt(0, 40), Pt(0, 40)>>
Tracks == {TrackOne, TrackTwo, TrackBack, TrackZero}

\* normalizeBearing
normalizeBearing(bearing) == ((bearing % (360 * Deg)) + 360 * Deg) % (360 * Deg)

\* variant of bearingDifference that does not wrap
bearingDifferenceLinear(b1, b2) == b2 - b1

\* bearingDifference
bearingDifference(b1, b2) ==
    LET diff == normalizeBearing(b2 - b1)
    IN IF diff > 180 * Deg THEN diff - 360 * Deg ELSE diff

\* calculateBearing: initial bearing from point1 to point2
calculateBearing(point1, point2) ==
    (Atan2(point2.lon - point1.lon, point2.lat - point1.lat) + 360 * Deg) % (360 * Deg)

\* calculateDistance: haversine distance in metres
calculateDistance(point1, point2) ==
    Sqrt((point2.lat - point1.lat) * (point2.lat - point1.lat)
         + (point2.lon - point1.lon) * (point2.lon - point1.lon))

\* interpolate, with t given as the fraction tn / td
interpolate(point1, point2, tn, td) ==
    [lat |-> point1.lat + MulDiv(point2.lat - point1.lat, tn, td),
     lon |-> point1.lon + MulDiv(point2.lon - point1.lon, tn, td),
     ele |-> point1.ele + MulDiv(point2.ele - point1.ele, tn, td)]

\* the cumulative-distance table initializeDistanceData builds for points
RECURSIVE CumulativeFrom(_, _, _)
CumulativeFrom(points, i, acc) ==
    IF i > Len(points) THEN acc
    ELSE CumulativeFrom(points, i + 1,
             Append(acc, acc[Len(acc)] + calculateDistance(points[i - 1], points[i])))

\* variant of findSegmentAtDistance whose comparison is strict
RECURSIVE SegmentSearchStrict(_, _, _, _)
SegmentSearchStrict(distances, targetDistance, left, right) ==
    IF left < right - 1
    THEN LET mid == (left + right) \div 2
         IN IF distances[mid + 1] < targetDistance
            THEN SegmentSearchStrict(distances, targetDistance, mid, right)
            ELSE SegmentSearchStrict(distances, targetDistance, left, mid)
    ELSE left
findSegmentStrict(distances, targetDistance) ==
    SegmentSearchStrict(distances, targetDistance, 0, Len(distances) - 1)

\* findSegmentAtDistance: binary search, 0-based result as in the code
RECURSIVE SegmentSearch(_, _, _, _)
SegmentSearch(distances, targetDistance, left, right) ==
    IF left < right - 1
    THEN LET mid == (left + right) \div 2
         IN IF distances[mid + 1] <= targetDistance
            THEN SegmentSearch(distances, targetDistance, mid, right)
            ELSE SegmentSearch(distances, targetDistance, left, mid)
    ELSE left
findSegmentAtDistance(distances, targetDistance) ==
    SegmentSearch(distances, targetDistance, 0, Len(distances) - 1)

\* ------------------------------------------------------- signal smoothers
\* Math.max(1, this.speed)
speedFactorOf(a) == Max(1, a.speed)

\* Sum over the bearing history of weight * sin (or cos); the weight of entry
\* i (1-based) is i / n / weightSum, and atan2 only needs the sums up to a
\* common positive factor, so the weight is taken as i.
RECURSIVE WeightedSum(_, _, _)
WeightedSum(history, i, useSin) ==
    IF i > Len(history) THEN 0
    ELSE i * (IF useSin THEN Sin1000(history[i]) ELSE Cos1000(history[i]))
         + WeightedSum(history, i + 1, useSin)

RECURSIVE ShiftTo(_, _)
ShiftTo(history, size) ==
    IF Len(history) > size THEN ShiftTo(Tail(history), size) ELSE history

\* smoothBearing: returns the updated instance and the smoothed bearing
smoothBearing(a, newBearing) ==
    LET speedFactor == speedFactorOf(a)
        \* max(0.015, 0.06 / sqrt(speedFactor)), in 1/10000
        dynamicSmoothingFactor == Max(150, Sqrt(360000 \div speedFactor))
        \* min(60, floor(20 * sqrt(speedFactor)))
        dynamicHistorySize == Min(60, Sqrt(400 * speedFactor))
    IN IF IsNull(a.lastBearing)
       THEN [a |-> [a EXCEPT !.lastBearing = Some(newBearing),
                             !.bearingHistory = <<newBearing>>],
             bearing |-> newBearing]
       ELSE LET history == ShiftTo(Append(a.bearingHistory, newBearing), dynamicHistorySize)
                sinSum == WeightedSum(history, 1, TRUE)
                cosSum == WeightedSum(history, 1, FALSE)
                normalizedAvg == normalizeBearing(Atan2(sinSum, cosSum))
                diff == bearingDifference(Val(a.lastBearing), normalizedAvg)
                next == normalizeBearing(Val(a.lastBearing)
                                         + MulDiv(diff, dynamicSmoothingFactor, 10000))
            IN [a |-> [a EXCEPT !.lastBearing = Some(next), !.bearingHistory = history],
                bearing |-> next]

\* smoothPosition: returns the updated instance and the smoothed position
smoothPosition(a, newPosition) ==
    IF IsNull(a.lastSmoothedPosition)
    THEN [a |-> [a EXCEPT !.lastSmoothedPosition = Some(newPosition)], pos |-> newPosition]
    ELSE LET last == Val(a.lastSmoothedPosition)
             \* max(0.04, 0.15 / sqrt(speedFactor)), in 1/1000
             dynamicFactor == Max(40, Sqrt(22500 \div speedFactorOf(a)))
             moved == [lat |-> last.lat + MulDiv(newPosition.lat - last.lat, dynamicFactor, 1000),
                       lon |-> last.lon + MulDiv(newPosition.lon - last.lon, dynamicFactor, 1000),
                       ele |-> last.ele + MulDiv(newPosition.ele - last.ele, dynamicFactor, 1000)]
         IN [a |-> [a EXCEPT !.lastSmoothedPosition = Some(moved)], pos |-> moved]

\* variant of smoothAltitude that eases toward the target in both directions
smoothAltitudeSymmetric(a, targetAltitude) ==
    IF IsNull(a.lastCameraAltitude)
    THEN [a |-> [a EXCEPT !.lastCameraAltitude = Some(targetAltitude)], alt |-> targetAltitude]
    ELSE LET next == Val(a.lastCameraAltitude)
                     + MulDiv(targetAltitude - Val(a.lastCameraAltitude), 5, 100)
         IN [a |-> [a EXCEPT !.lastCameraAltitude = Some(next)], alt |-> next]

\* smoothAltitude: returns the updated instance and the smoothed altitude
smoothAltitude(a, targetAltitude) ==
    IF IsNull(a.lastCameraAltitude)
    THEN [a |-> [a EXCEPT !.lastCameraAltitude = Some(targetAltitude)], alt |-> targetAltitude]
    ELSE LET last == Val(a.lastCameraAltitude)
             next == IF targetAltitude > last THEN targetAltitude
                     ELSE last + MulDiv(targetAltitude - last, 5, 100)
         IN [a |-> [a EXCEPT !.lastCameraAltitude = Some(next)], alt |-> next]

\* blendBearings, weight1 in 1/1000
blendBearings(bearing1, bearing2, weight1) ==
    LET sinSum == Sin1000(bearing1) * weight1 + Sin1000(bearing2) * (1000 - weight1)
        cosSum == Cos1000(bearing1) * weight1 + Cos1000(bearing2) * (1000 - weight1)
    IN normalizeBearing(Atan2(sinSum, cosSum))

\* -------------------------------------------------------- distance index
\* initializeDistanceData, on the points the track provider returns
initializeDistanceData(a, points) ==
    IF Len(points) < 2
    THEN [a EXCEPT !.distanceDataInitialized = FALSE]
    ELSE LET table == CumulativeFrom(points, 2, <<0>>)
         IN [a EXCEPT !.cumulativeDistances = table,
                      !.totalDistance = table[Len(table)],
                      !.distanceDataInitialized = TRUE]

\* ---------------------------------------------------------- track sampler
\* variant of sampleAt whose fraction is measured from the start of the track
sampleAtFromStart(a, points, distance) ==
    LET table == a.cumulativeDistances
        index == findSegmentAtDistance(table, distance)
        segmentLength == table[Min(index + 1, Len(table) - 1) + 1] - table[index + 1]
        tn == IF segmentLength > 0 THEN distance ELSE 0
        td == IF segmentLength > 0 THEN segmentLength ELSE 1
    IN [index |-> index, defined |-> index < Len(points), tn |-> tn, td |-> td,
        pos |-> IF index < Len(points)
                THEN interpolate(points[index + 1],
                                 points[Min(index + 1, Len(points) - 1) + 1], tn, td)
                ELSE Pt(0, 0)]

\* The position `distance` metres along the track: segment lookup, fraction
\* within the segment (0 for a segment of length 0) and interpolation.
\* defined is FALSE when the table's segment starts at a point the track
\* provider does not have (points[index] is undefined).
sampleAt(a, points, distance) ==
    LET table == a.cumulativeDistances
        index == findSegmentAtDistance(table, distance)
        segmentStartDist == table[index + 1]
        segmentEndDist == table[Min(index + 1, Len(table) - 1) + 1]
        segmentLength == segmentEndDist - segmentStartDist
        tn == IF segmentLength > 0 THEN distance - segmentStartDist ELSE 0
        td == IF segmentLength > 0 THEN segmentLength ELSE 1
    IN [index |-> index,
        defined |-> index < Len(points),
        tn |-> tn,
        td |-> td,
        pos |-> IF index < Len(points)
                THEN interpolate(points[index + 1],
                                 points[Min(index + 1, Len(points) - 1) + 1], tn, td)
                ELSE Pt(0, 0)]

\* getPointAtProgress is modelled in stages, each an operator that receives what
\* the code has computed so far.  The result's kind is "null" (the code returns
\* null), "throw" (a look-ahead sample reads a point the track does not have:
\* TypeError) or "ok"; a is the instance as the call leaves it.

\* calculateMeanDirectionBearing's look distance: min(1200, 400 * sqrt(speedFactor))
lookDistanceOf(a) == Min(1200, Sqrt(160000 * speedFactorOf(a)))

\* the weight of the mean direction: min(0.95, 0.80 + 0.015 * (speedFactor - 1)), in 1/1000
meanWeightOf(a) == Min(950, 800 + 15 * (speedFactorOf(a) - 1))

\* the object getPointAtProgress returns: sp is smoothPosition's outcome, sb
\* smoothBearing's
trackPositionOf(cur, sp, blendedBearing, sb) ==
    [kind |-> "ok", a |-> sb.a,
     position |-> sp.pos, rawPosition |-> cur.pos,
     bearing |-> sb.bearing, rawBearing |-> blendedBearing,
     index |-> cur.index, tn |-> cur.tn, td |-> cur.td]

\* the bearing is smoothed on the instance position smoothing left
pointWithBearing(cur, sp, blendedBearing) ==
    trackPositionOf(cur, sp, blendedBearing, smoothBearing(sp.a, blendedBearing))

\* the mean direction (past to future sample) blended with the immediate bearing
pointFromSamples(cur, sp, past, future, immed) ==
    IF ~past.defined \/ ~future.defined \/ ~immed.defined
    THEN [kind |-> "throw", a |-> sp.a]
    ELSE pointWithBearing(cur, sp,
             blendBearings(calculateBearing(past.pos, future.pos),
                           calculateBearing(cur.pos, immed.pos), meanWeightOf(sp.a)))

\* the position is smoothed, then the track is sampled behind and ahead
pointFromCurrent(a1, points, targetDistance, cur) ==
    IF ~cur.defined THEN [kind |-> "null", a |-> a1]
    ELSE pointFromSamples(cur, smoothPosition(a1, cur.pos),
             sampleAt(a1, points, Max(0, targetDistance - lookDistanceOf(a1))),
             sampleAt(a1, points, Min(a1.totalDistance, targetDistance + lookDistanceOf(a1))),
             sampleAt(a1, points, Min(a1.totalDistance, targetDistance + immediateLookAheadM)))

\* progress is clamped to [0, 1] and turned into a distance along the track
pointAtClamped(a1, points, clamped) ==
    pointFromCurrent(a1, points, (clamped * a1.totalDistance) \div PScale,
                     sampleAt(a1, points, (clamped * a1.totalDistance) \div PScale))

\* getPointAtProgress(progress)
getPointAtProgress(a0, points, progress) ==
    IF Len(points) < 2 THEN [kind |-> "null", a |-> a0]
    ELSE pointAtClamped(IF ~a0.distanceDataInitialized
                        THEN initializeDistanceData(a0, points) ELSE a0,
                        points, Max(0, Min(PScale, progress)))

\* ------------------------------------------------- terrain and free camera
\* What map.queryTerrainElevation does: it returns null (no terrain tiles
\* loaded) or the elevation of a hill.
TerrainStates == {"unavailable", "hill"}
\* Whether the free camera works: building the pose (getFreeCameraOptions,
\* MercatorCoordinate.fromLngLat, lookAtPoint) throws, or applying it
\* (setFreeCameraOptions) throws
FreeCameraStates == {"ok", "throws", "applyThrows"}
Sites == [terrain : TerrainStates, freeCamera : FreeCameraStates]

\* getCameraPosition's try block completes and returns { freeCamera: camera }
freeCameraBuilds(env) == env.freeCamera # "throws"

\* The hill: 150 m high between 200 m and 500 m north of the origin, 0 elsewhere
HillElevation(lon, lat) == IF lat >= 200 /\ lat <= 500 THEN 150 ELSE 0

\* queryTerrainElevation(lon, lat, fallbackElevation); a null fallback is 0
queryTerrainElevation(terrain, lon, lat, fallbackElevation) ==
    IF terrain = "hill" /\ HillElevation(lon, lat) > 0
    THEN (HillElevation(lon, lat) * 3) \div 2
    ELSE fallbackElevation

\* squared distance in the plane of degrees, as getTrackElevationNear compares it
planarDistSq(point, lon, lat) ==
    (point.lon - lon) * (point.lon - lon) + (point.lat - lat) * (point.lat - lat)

\* index of the first point nearest to (lon, lat) among points[i .. Len(points)]
RECURSIVE NearestFrom(_, _, _, _)
NearestFrom(points, lon, lat, i) ==
    IF i >= Len(points) THEN i
    ELSE LET rest == NearestFrom(points, lon, lat, i + 1)
         IN IF planarDistSq(points[i], lon, lat) <= planarDistSq(points[rest], lon, lat)
            THEN i ELSE rest

\* getTrackElevationNear: elevation of the first nearest track point
getTrackElevationNear(points, lon, lat) ==
    IF Len(points) = 0 THEN 0 ELSE points[NearestFrom(points, lon, lat, 1)].ele

\* metersToLatLon near the equator (cos(latitude) = 1)
metersToLatLon(meters, bearing) ==
    [latOffset |-> MulDiv(MulDiv(meters, Cos1000(bearing), 1000), MetresPerDegree, LatLonDivisor),
     lonOffset |-> MulDiv(MulDiv(meters, Sin1000(bearing), 1000), MetresPerDegree, LatLonDivisor)]

\* requiredCamAlt of sample i of numSamples:
\* (terrainAlt + clearance - lookAtAlt * t) / (1 - t) with t = i / numSamples
requiredCamAlt(terrainAlt, lookAtAlt, i, numSamples) ==
    MulDiv((terrainAlt + minTerrainClearance) * numSamples - lookAtAlt * i, 1, numSamples - i)

\* the largest element of a non-empty set of numbers
SetMax(S) == CHOOSE m \in S : \A x \in S : x <= m

\* calculateLineOfSightClearance: the largest requiredCamAlt over the samples
\* i = 0 .. numSamples with t = i / numSamples < 0.98, and at least 0
calculateLineOfSightClearance(points, terrain, cameraLon, cameraLat, lookAtLon, lookAtLat, lookAtAlt, numSamples) ==
    SetMax({0} \cup
           {requiredCamAlt(
                queryTerrainElevation(terrain,
                    cameraLon + MulDiv(lookAtLon - cameraLon, i, numSamples),
                    cameraLat + MulDiv(lookAtLat - cameraLat, i, numSamples),
                    getTrackElevationNear(points,
                        cameraLon + MulDiv(lookAtLon - cameraLon, i, numSamples),
                        cameraLat + MulDiv(lookAtLat - cameraLat, i, numSamples))),
                lookAtAlt, i, numSamples) :
            i \in {j \in 0..numSamples : j * 100 < 98 * numSamples}})

\* calculateZoom: max(10, min(18, 18 - log2(altitude / 50))), in whole levels
RECURSIVE FloorLog2(_)
FloorLog2(n) == IF n < 2 THEN 0 ELSE 1 + FloorLog2(n \div 2)
calculateZoom(altitude) ==
    IF altitude < 50 THEN 18 ELSE Max(10, Min(18, 18 - FloorLog2(altitude \div 50)))

FreePose(lon, lat, alt, lookLon, lookLat, lookAlt) ==
    [kind |-> "free", lon |-> lon, lat |-> lat, alt |-> alt,
     lookLon |-> lookLon, lookLat |-> lookLat, lookAlt |-> lookAlt,
     zoom |-> 0, pitch |-> 0, bearing |-> 0]
FallbackPose(lon, lat, zoom, pitch, bearing) ==
    [kind |-> "fallback", lon |-> lon, lat |-> lat, alt |-> 0,
     lookLon |-> 0, lookLat |-> 0, lookAlt |-> 0,
     zoom |-> zoom, pitch |-> pitch, bearing |-> bearing]

\* the largest terrain elevation over the birdseye ring (every 45 degrees)
ringMax(terrain, position, trackElevation) ==
    SetMax({trackElevation} \cup
           {LET off == metersToLatLon(sampleRadius, k * 45 * Deg)
            IN queryTerrainElevation(terrain, position.lon + off.lonOffset,
                                     position.lat + off.latOffset, 0) : k \in 0..7})

\* the point `meters` from position in direction bearing
offsetPoint(position, meters, bearing) ==
    LET off == metersToLatLon(meters, bearing)
    IN [lon |-> position.lon + off.lonOffset, lat |-> position.lat + off.latOffset]

\* variant of rawAltitudeOf that only keeps the sight line clear
rawAltitudeForLoS(minAltForLoS, minAltForGround) == minAltForLoS

\* follow mode: const rawAltitude = Math.max(minAltForLoS, minAltForGround)
rawAltitudeOf(minAltForLoS, minAltForGround) == Max(minAltForLoS, minAltForGround)

\* getCameraPosition in follow mode, camera and lookAt being the points behind
\* and ahead of the track position
followCamera(a, position, bearing, points, env, camera, lookAt) ==
    LET trackPointElevation == MulDiv(position.ele, 3, 2)
        lookAtTerrainEle == queryTerrainElevation(env.terrain, lookAt.lon, lookAt.lat,
                                                  trackPointElevation)
        lookAtAlt == Max(trackPointElevation, lookAtTerrainEle) + 5
        lineOfSightCamAlt ==
            calculateLineOfSightClearance(points, env.terrain, camera.lon, camera.lat,
                                          lookAt.lon, lookAt.lat, lookAtAlt, losSamples)
        cameraGroundElevation == queryTerrainElevation(env.terrain, camera.lon, camera.lat,
                                                       trackPointElevation)
        minAltForLoS == lineOfSightCamAlt + a.cameraAltitude
        minAltForGround == cameraGroundElevation + a.cameraAltitude + minTerrainClearance
        rawAltitude == rawAltitudeOf(minAltForLoS, minAltForGround)
        sm == smoothAltitude(a, rawAltitude)
    IN [a |-> sm.a,
        pose |-> IF freeCameraBuilds(env)
                 THEN FreePose(camera.lon, camera.lat, sm.alt, lookAt.lon, lookAt.lat, lookAtAlt)
                 ELSE FallbackPose(position.lon, position.lat,
                                   calculateZoom(a.cameraAltitude), a.cameraPitch, bearing),
        rawAltitude |-> rawAltitude,
        groundFloor |-> minAltForGround,
        altitudeCall |-> Some([last |-> a.lastCameraAltitude, target |-> rawAltitude,
                               result |-> sm.alt])]

\* getCameraPosition in birdseye mode
birdseyeCamera(a, position, bearing, env) ==
    LET trackElevation == queryTerrainElevation(env.terrain, position.lon, position.lat, 0)
        maxTerrainHeight == ringMax(env.terrain, position, trackElevation)
        requiredAltitude == maxTerrainHeight + a.cameraAltitude * 3 + minTerrainClearance
        ahead == metersToLatLon(birdseyeLookAheadM, bearing)
    IN [a |-> a,
        pose |-> IF freeCameraBuilds(env)
                 THEN FreePose(position.lon, position.lat, requiredAltitude,
                               position.lon + ahead.lonOffset,
                               position.lat + ahead.latOffset, 0)
                 ELSE FallbackPose(position.lon, position.lat,
                                   calculateZoom(a.cameraAltitude * 3), a.cameraPitch,
                                   bearing),
        rawAltitude |-> requiredAltitude,
        groundFloor |-> requiredAltitude,
        altitudeCall |-> None]

\* getCameraPosition: returns the updated instance (altitude smoothing), the
\* pose, the raw altitude and the altitude the ground requires
getCameraPosition(a, trackPosition, points, env) ==
    IF a.mode = "follow"
    THEN followCamera(a, trackPosition.position, trackPosition.bearing, points, env,
                      offsetPoint(trackPosition.position, cameraDistance,
                                  (trackPosition.bearing + 180 * Deg) % (360 * Deg)),
                      offsetPoint(trackPosition.position, lookAtDistance,
                                  trackPosition.bearing))
    ELSE birdseyeCamera(a, trackPosition.position, trackPosition.bearing, env)

\* ------------------------------------------------------------------ state
VARIABLES
    anim,      \* the FlyoverAnimation instance: its fields
    gmap,      \* the GPXMap: trackData, and the map surface (camera, progress marker)
    raf,       \* the host's outstanding requestAnimationFrame callbacks (their ids)
    now,       \* the host clock (performance.now() and frame timestamps), ms
    rec,       \* the VideoRecorder: isRecording, the MediaRecorder's state
    calls,     \* callbacks invoked by the last operation, in order: <<name, argument>>
    poses,     \* the frames the last operation rendered, in order: the camera pose
               \* applied to the map and the position given to the progress marker
    thrown,    \* number of uncaught exceptions the last operation raised
    lastOp,    \* the last operation: <<name, argument>>
    site,      \* the map's terrain source and free camera support
    old,       \* the FlyoverAnimation instance that handleFile replaced, if any: its
               \* fields (a), its outstanding frame callbacks (q) and the frames it
               \* rendered during the last operation (poses)
    fn         \* a function of the program applied on its own: its name (op), its
               \* arguments (args) and, once it has returned, its result

programVars == <<anim, gmap, raf, now, rec, calls, poses, thrown, lastOp, site, old>>
vars == <<anim, gmap, raf, now, rec, calls, poses, thrown, lastOp, site, old, fn>>

\* The program state the operations thread through: w.a the animation, w.m the
\* map, w.q the frame queue, w.r the recorder, and what the operation emitted.
World == [a |-> anim, m |-> gmap, q |-> raf, r |-> rec,
          calls |-> <<>>, poses |-> <<>>, thrown |-> 0]

\* variant of resetSmoothing that keeps the last smoothed position
resetSmoothingKeepPosition(a) ==
    [a EXCEPT !.lastCameraAltitude = None, !.lastBearing = None, !.bearingHistory = <<>>]

\* variant of resetSmoothing that keeps the last camera altitude
resetSmoothingKeepAltitude(a) ==
    [a EXCEPT !.lastBearing = None, !.bearingHistory = <<>>, !.lastSmoothedPosition = None]

\* the smoothing state start(), stop() and a backward stepToProgress clear
resetSmoothing(a) ==
    [a EXCEPT !.lastCameraAltitude = None, !.lastBearing = None,
              !.bearingHistory = <<>>, !.lastSmoothedPosition = None]

\* initProgressMarker: remove the marker's layers and source, add them again
initProgressMarker(w) ==
    [w EXCEPT !.m.markerSource = TRUE, !.m.markerVisible = TRUE]

\* updateProgressMarker: the marker of the frame just rendered moves to position
updateProgressMarker(w, position) ==
    LET w1 == IF ~w.m.markerSource THEN initProgressMarker(w) ELSE w
    IN [w1 EXCEPT !.poses[Len(w1.poses)].marker =
                      Some([lon |-> position.lon, lat |-> position.lat, ele |-> position.ele])]

\* variant of setProgressMarkerVisible(false) that leaves the marker shown
leaveMarker(w) == w

\* setProgressMarkerVisible(false)
hideProgressMarker(w) ==
    IF w.m.markerSource THEN [w EXCEPT !.m.markerVisible = FALSE] ELSE w

\* applyCameraPosition: the pose reaches the map (setFreeCameraOptions or jumpTo)
applyCameraPosition(w, cameraPosition) ==
    [w EXCEPT !.poses = Append(@, [camera |-> cameraPosition, marker |-> None,
                                   altitude |-> None])]

\* the smoothAltitude call made for the frame just rendered (last value, target,
\* result), kept with the frame
noteAltitude(w, altitudeCall) == [w EXCEPT !.poses[Len(w.poses)].altitude = altitudeCall]

\* stop()
stop(w) ==
    LET w1 == [w EXCEPT !.a = [resetSmoothing(@) EXCEPT !.isPlaying = FALSE,
                                                        !.isPaused = FALSE,
                                                        !.progress = 0]]
        w2 == hideProgressMarker(w1)
    IN IF ~IsNull(w2.a.animationFrame)
       THEN [w2 EXCEPT !.q = @ \ {Val(w2.a.animationFrame)}, !.a.animationFrame = None]
       ELSE w2

\* VideoRecorder.stopRecording()
stopRecording(w) ==
    IF ~w.r.isRecording THEN w
    ELSE LET w1 == stop(w)
         IN [w1 EXCEPT !.r.media = IF @ = "recording" THEN "inactive" ELSE @,
                       !.r.stopEvent = @ \/ w.r.media = "recording",
                       !.r.isRecording = FALSE]

\* invoking this.onProgress / this.onFrame / this.onComplete when set
invoke(w, name, owner, arg) ==
    IF owner = "none" THEN w
    ELSE LET w1 == [w EXCEPT !.calls = Append(@, <<name, arg>>)]
         IN IF name = "onComplete" /\ owner = "recorder" THEN stopRecording(w1) ELSE w1

\* requestAnimationFrame((ts) => this.animate(ts)): the new callback's id
newFrameId(q) == CHOOSE n \in 1..(Cardinality(q) + 1) : n \notin q

\* variant of markerPositionOf that hands the smoothed position to the marker
markerFromSmoothed(tp) == tp.position

\* this.updateProgressMarker(trackPosition.rawPosition)
markerPositionOf(tp) == tp.rawPosition

\* the pose is applied and the marker moved to the raw track position; an
\* exception from setFreeCameraOptions leaves applyCameraPosition uncaught
renderCamera(w, tp, cam, env) ==
    IF cam.pose.kind = "free" /\ env.freeCamera = "applyThrows"
    THEN [w EXCEPT !.a = cam.a, !.thrown = @ + 1]
    ELSE noteAltitude(updateProgressMarker(applyCameraPosition([w EXCEPT !.a = cam.a],
                                                               cam.pose),
                                           markerPositionOf(tp)),
                      cam.altitudeCall)

\* if (trackPosition) { getCameraPosition; applyCameraPosition; updateProgressMarker }
renderPoint(w, tp, env) ==
    IF tp.kind = "null" THEN [w EXCEPT !.a = tp.a]
    ELSE IF tp.kind = "throw" THEN [w EXCEPT !.a = tp.a, !.thrown = @ + 1]
    ELSE renderCamera(w, tp, getCameraPosition(tp.a, tp, w.m.trackData, env), env)

\* one frame: sample the track, compose and apply the pose, move the marker
composeFrame(w, progress, env) ==
    renderPoint(w, getPointAtProgress(w.a, w.m.trackData, progress), env)

\* variant of advanceProgress without the clamp to 1
advanceUnclamped(a, deltaTime) ==
    a.progress + (IF a.totalDistance > 0
                  THEN (((baseSpeedMps * a.speed * deltaTime) \div 1000) * PScale)
                       \div a.totalDistance
                  ELSE 0)

\* the progress a tick reaches from a.progress after deltaTime ms
advanceProgress(a, deltaTime) ==
    LET effectiveSpeed == baseSpeedMps * a.speed
        distanceThisFrame == (effectiveSpeed * deltaTime) \div 1000
        progressIncrement == IF a.totalDistance > 0
                             THEN (distanceThisFrame * PScale) \div a.totalDistance
                             ELSE 0
    IN Min(PScale, a.progress + progressIncrement)

\* variant of animate's guard that lets a tick run while paused
tickIgnoresPause(a) == ~a.isPlaying

\* animate's guard: the tick does nothing unless playing and not paused
tickSuspended(a) == ~a.isPlaying \/ a.isPaused

\* animate, after the callbacks: completion, or the next tick is requested
completeOrSchedule(w) ==
    IF w.a.progress >= PScale
    THEN invoke([w EXCEPT !.a.isPlaying = FALSE], "onComplete", w.a.onComplete, 0)
    ELSE [w EXCEPT !.q = @ \cup {newFrameId(w.q)}, !.a.animationFrame = Some(newFrameId(w.q))]

\* animate: if (this.onFrame) this.onFrame(this.progress)
fireOnFrame(w) == completeOrSchedule(invoke(w, "onFrame", w.a.onFrame, w.a.progress))

\* animate: if (this.onProgress) this.onProgress(this.progress)
fireOnProgress(w) == fireOnFrame(invoke(w, "onProgress", w.a.onProgress, w.a.progress))

\* animate, after the frame was composed on w0: an exception ends the tick
afterFrame(w0, w) == IF w.thrown > w0.thrown THEN w ELSE fireOnProgress(w)

\* animate: the clock reference and progress move, the frame is composed
tick(w, timestamp, env) ==
    afterFrame(w, composeFrame([w EXCEPT !.a.lastTimestamp = timestamp,
                                         !.a.progress = advanceProgress(w.a,
                                                    timestamp - w.a.lastTimestamp)],
                               advanceProgress(w.a, timestamp - w.a.lastTimestamp), env))

\* animate(timestamp)
animate(w, timestamp, env) ==
    IF tickSuspended(w.a) THEN w ELSE tick(w, timestamp, env)

\* variants of start()'s guards: start() accepted while paused; a single point
\* accepted as a track
playingUnpaused(a) == a.isPlaying /\ ~a.isPaused
noPoints(points) == Len(points) < 1

\* start()'s guards: a run is already active; the track is too short
alreadyPlaying(a) == a.isPlaying
notEnoughPoints(points) == Len(points) < 2

\* variant of enterPlaying that keeps the stored progress
enterPlayingKeepProgress(a, clock) ==
    [a EXCEPT !.isPlaying = TRUE, !.isPaused = FALSE, !.lastTimestamp = clock]

\* start(): the fields set on entering Playing
enterPlaying(a, clock) ==
    [a EXCEPT !.isPlaying = TRUE, !.isPaused = FALSE, !.progress = 0, !.lastTimestamp = clock]

\* start()
start(w, clock, env) ==
    IF alreadyPlaying(w.a) THEN w
    ELSE IF notEnoughPoints(w.m.trackData) THEN w
    ELSE
    LET w1 == [w EXCEPT !.a = resetSmoothing(initializeDistanceData(@, w.m.trackData))]
        w2 == initProgressMarker(w1)
        w3 == [w2 EXCEPT !.a = enterPlaying(@, clock)]
    IN animate(w3, clock, env)

\* pause()
pause(w) == [w EXCEPT !.a.isPaused = TRUE]

\* variant of resume() that keeps the clock reference of the last tick
resumeKeepClock(w, clock, env) ==
    IF ~w.a.isPlaying THEN w
    ELSE animate([w EXCEPT !.a.isPaused = FALSE], clock, env)

\* resume()
resume(w, clock, env) ==
    IF ~w.a.isPlaying THEN w
    ELSE animate([w EXCEPT !.a.isPaused = FALSE, !.a.lastTimestamp = clock], clock, env)

\* variant of stepResets that resets at progress 0 only
stepResetsAtZero(a, progress) == progress = 0

\* stepToProgress: if (progress === 0 || progress < this.progress)
stepResets(a, progress) == progress = 0 \/ progress < a.progress

\* stepToProgress(progress)
stepToProgress(w, progress, env) ==
    LET w1 == IF ~w.a.distanceDataInitialized
              THEN [w EXCEPT !.a = initializeDistanceData(@, w.m.trackData)]
              ELSE w
        w2 == IF stepResets(w1.a, progress)
              THEN initProgressMarker([w1 EXCEPT !.a = resetSmoothing(@)])
              ELSE w1
    IN composeFrame([w2 EXCEPT !.a.progress = progress], progress, env)

\* the recorder invokes its onComplete or onError callback
recorderCallback(w, name) ==
    [w EXCEPT !.calls = Append(@, <<name, 0>>), !.r.terminal = Min(2, @ + 1)]

\* VideoRecorder.startRecording(); mimeType is whether the browser supports
\* one of the recorder's video formats
startRecording(w, clock, env, mimeType) ==
    IF w.r.isRecording THEN w
    ELSE IF ~mimeType
    THEN recorderCallback([w EXCEPT !.r.isRecording = FALSE, !.r.chunks = 0,
                                    !.r.terminal = 0], "recorder.onError")
    ELSE start([w EXCEPT !.r.isRecording = TRUE, !.r.media = "recording",
                         !.r.chunks = 0, !.r.terminal = 0,
                         !.a.progress = 0,
                         !.a.onProgress = "recorder", !.a.onComplete = "recorder"],
               clock, env)

\* the host runs the frame's callbacks, oldest first; a callback cancelled
\* meanwhile does not run
RECURSIVE runCallbacks(_, _, _, _)
runCallbacks(w, ids, timestamp, env) ==
    IF ids = {} THEN w
    ELSE LET id == CHOOSE i \in ids : \A j \in ids : i <= j
         IN IF id \in w.q
            THEN runCallbacks(animate([w EXCEPT !.q = @ \ {id}], timestamp, env),
                              ids \ {id}, timestamp, env)
            ELSE runCallbacks(w, ids \ {id}, timestamp, env)

\* ------------------------------------------------------------ inputs
Speeds == {1, 2}

\* what finishRecording does with the recording: outputFormat 'webm' downloads
\* it; 'mp4' converts it, with FFmpeg unavailable, failing or succeeding
Conversions == {"webm", "unavailable", "fails", "mp4"}
StepInputs == {-6, 0, 6, 18}

\* getTotalDuration() in milliseconds, the distance data being initialised
getTotalDuration(a) ==
    IF a.totalDistance > 0
    THEN (a.totalDistance * 1000) \div (baseSpeedMps * a.speed)
    ELSE 160 * 1000

\* Math.ceil(this.animation.getTotalDuration() * this.fps)
totalFramesOf(a, fps) == (getTotalDuration(a) * fps + 999) \div 1000

\* variant of waitForMapRender without the fallback timer
waitForMapRenderNoFallback(w) == [w EXCEPT !.r.wait = "pending", !.r.timer = FALSE]

\* waitForMapRender(): the promise is pending, the render listener registered
\* and the 50 ms fallback timer armed
waitForMapRender(w) == [w EXCEPT !.r.wait = "pending", !.r.timer = TRUE]

\* catch (error) of recordFrameByFrame
frameRecordingError(w) ==
    recorderCallback([w EXCEPT !.r.isRecording = FALSE, !.r.loop = None,
                               !.r.wait = "none", !.r.timer = FALSE],
                     "recorder.onError")

\* the loop body up to its first await; w1 is the program after stepToProgress,
\* an exception of which reaches the catch block
awaitRender(w, w1, frame, totalFrames) ==
    IF w1.thrown > w.thrown THEN frameRecordingError(w1)
    ELSE waitForMapRender([w1 EXCEPT !.r.loop = Some([frame |-> frame,
                                                       totalFrames |-> totalFrames])])

\* for (frame ...) { stepToProgress(frame / totalFrames); await waitForMapRender()
renderFrame(w, frame, totalFrames, env) ==
    awaitRender(w, stepToProgress(w, (frame * PScale) \div totalFrames, env),
                frame, totalFrames)

\* recordFrameByFrame() up to the first await of its loop
recordFrameByFrame(w, env, fps) ==
    IF w.r.isRecording THEN w
    ELSE LET w1 == IF ~w.a.distanceDataInitialized
                   THEN [w EXCEPT !.a = initializeDistanceData(@, w.m.trackData)]
                   ELSE w
         IN renderFrame([w1 EXCEPT !.r.isRecording = TRUE, !.r.chunks = 0,
                                   !.r.terminal = 0, !.r.media = "recording"],
                        0, totalFramesOf(w1.a, fps), env)

\* after the loop: this.mediaRecorder.stop() raises InvalidStateError on a
\* recorder that is not recording; otherwise the stop event is queued and
\* isRecording cleared
endFrames(w) ==
    IF w.r.media # "recording" THEN frameRecordingError(w)
    ELSE [w EXCEPT !.r.media = "inactive", !.r.stopEvent = TRUE,
                   !.r.isRecording = FALSE, !.r.loop = None]

\* the rest of the loop body once the render wait has resolved (the frame is
\* drawn, onProgress reported, the encoding delay awaited), then the next
\* iteration or the end of the loop
continueFrames(w, l, env) ==
    LET w1 == [w EXCEPT !.calls = Append(@, <<"recorder.onProgress",
                                              (l.frame * PScale) \div l.totalFrames>>),
                        !.r.wait = "none"]
    IN IF l.frame + 1 <= l.totalFrames
       THEN renderFrame(w1, l.frame + 1, l.totalFrames, env)
       ELSE endFrames(w1)

\* downloadVideo(blob, extension): the file is offered and onComplete invoked
downloadVideo(w) == recorderCallback(w, "recorder.onComplete")

\* convertToMP4(webmBlob): FFmpeg not loaded or a failed conversion download
\* the WebM recording, a successful one the MP4 file
convertToMP4(w, conversion) ==
    IF conversion = "unavailable" THEN downloadVideo(w)
    ELSE IF conversion = "fails" THEN downloadVideo(w)
    ELSE downloadVideo(w)

\* finishRecording()
finishRecording(w, conversion) ==
    IF w.r.chunks = 0 THEN recorderCallback(w, "recorder.onError")
    ELSE IF conversion = "webm" THEN downloadVideo(w)
    ELSE convertToMP4(w, conversion)

\* ondataavailable: a chunk with data is appended to recordedChunks
dataAvailable(w, size) ==
    IF size > 0 THEN [w EXCEPT !.r.chunks = IF @ = 1 THEN 2 ELSE 1] ELSE w

\* ------------------------------------------------------------ actions
\* new VideoRecorder(gpxMap, animation): isRecording; the MediaRecorder's state
\* (media) and whether its stop event is queued (stopEvent); whether
\* recordedChunks holds data (chunks: 0 none, else 1 or 2 by parity); the
\* position of recordFrameByFrame's loop (loop: the frame being rendered) and
\* of its render wait (wait, timer); and the number of times onComplete or
\* onError was invoked since the recording attempt began (terminal, up to 2)
VideoRecorder ==
    [isRecording |-> FALSE, media |-> "none", stopEvent |-> FALSE, chunks |-> 0,
     loop |-> None, wait |-> "none", timer |-> FALSE, terminal |-> 0]

\* new FlyoverAnimation(gpxMap): the fields the constructor sets
FlyoverAnimation ==
    [isPlaying |-> FALSE, isPaused |-> FALSE, animationFrame |-> None,
     lastTimestamp |-> 0, progress |-> 0,
     mode |-> "follow", speed |-> 1, cameraAltitude |-> 100, cameraPitch |-> 60,
     cumulativeDistances |-> None, totalDistance |-> 0,
     distanceDataInitialized |-> FALSE,
     lastCameraAltitude |-> None, lastBearing |-> None,
     bearingHistory |-> <<>>, lastSmoothedPosition |-> None,
     onProgress |-> "none", onComplete |-> "none", onFrame |-> "none"]

Constructed ==
    /\ anim = FlyoverAnimation
    /\ gmap = [trackData |-> <<>>, markerSource |-> FALSE, markerVisible |-> FALSE]
    /\ raf = {}
    /\ now = 0
    /\ rec = VideoRecorder
    /\ calls = <<>>
    /\ poses = <<>>
    /\ thrown = 0
    /\ lastOp = <<"init", 0>>
    /\ site = [terrain |-> "hill", freeCamera |-> "ok"]
    /\ old = None

\* the program after the page has loaded
Init ==
    /\ Constructed
    /\ fn = None

\* the replaced instance is not touched, and has rendered nothing
oldIdle == old' = IF IsNull(old) THEN None ELSE Some([Val(old) EXCEPT !.poses = <<>>])

\* the state an operation leaves in the current instance, the map, the frame
\* queue and the recorder, within the explored bounds
CommitCurrent(w, op) ==
    /\ Cardinality(w.q) <= MaxPending
    /\ anim' = w.a
    /\ gmap' = w.m
    /\ raf' = w.q
    /\ rec' = w.r
    /\ calls' = w.calls
    /\ poses' = w.poses
    /\ thrown' = w.thrown
    /\ lastOp' = op
    /\ UNCHANGED <<site, fn>>

\* the state an operation of the current instance leaves
Commit(w, op) ==
    /\ oldIdle
    /\ CommitCurrent(w, op)

\* handleFile: gpxMap.loadTrack(data), then the animation is constructed on the
\* map and updateAnimationSettings applies the speed slider
LoadTrack ==
    \E t \in Tracks, sp \in Speeds :
        /\ gmap.trackData = <<>>
        /\ Commit([World EXCEPT !.m.trackData = t, !.a.speed = sp], <<"loadTrack", 0>>)
        /\ UNCHANGED now

\* the play button starting playback: the host sets its callbacks
\* (animation.onProgress = fn, animation.onComplete = fn) and calls start()
hostCallbacks(w) == [w EXCEPT !.a.onProgress = "host", !.a.onComplete = "host"]

Start ==
    /\ \E w \in {start(hostCallbacks(World), now, site)} : Commit(w, <<"start", 0>>)
    /\ UNCHANGED now

Pause ==
    /\ Commit(pause(World), <<"pause", 0>>)
    /\ UNCHANGED now

\* resume(); the operation's argument records the wall-clock time since the last
\* tick when it is called in Paused
Resume ==
    /\ \E w \in {resume(World, now, site)} :
           Commit(w, <<"resume", IF anim.isPlaying /\ anim.isPaused
                                 THEN now - anim.lastTimestamp ELSE 0>>)
    /\ UNCHANGED now

Stop ==
    /\ Commit(stop(World), <<"stop", 0>>)
    /\ UNCHANGED now

StepToProgress ==
    \E p \in StepInputs :
        /\ ~anim.isPlaying
        /\ \E w \in {stepToProgress(World, p, site)} :
               /\ Len(w.a.bearingHistory) <= MaxStepHist
               /\ Commit(w, <<"stepToProgress", p>>)
        /\ UNCHANGED now

StartRecording ==
    \E mimeType \in BOOLEAN :
        /\ \E w \in {startRecording(World, now, site, mimeType)} :
               Commit(w, <<"startRecording", 0>>)
        /\ UNCHANGED now

StopRecording ==
    /\ Commit(stopRecording(World), <<"stopRecording", 0>>)
    /\ UNCHANGED now

\* the number of frames a frame-by-frame recording of the loaded track takes
framesToRecord ==
    totalFramesOf(IF anim.distanceDataInitialized THEN anim
                  ELSE initializeDistanceData(anim, gmap.trackData), RecorderFps)

\* recordFrameByFrame() is called once the previous attempt has been delivered
RecordFrameByFrame ==
    /\ gmap.trackData # <<>>
    /\ IsNull(rec.loop)
    /\ ~rec.stopEvent
    /\ framesToRecord <= MaxFrames
    /\ \E w \in {recordFrameByFrame(World, site, RecorderFps)} :
           Commit(w, <<"recordFrameByFrame", 0>>)
    /\ UNCHANGED now

\* the map emits its render event: the once('render') listener resolves the wait
RenderEvent ==
    /\ rec.wait = "pending"
    /\ Commit([World EXCEPT !.r.wait = "resolved", !.r.timer = FALSE], <<"render", 0>>)
    /\ UNCHANGED now

\* setTimeout(resolve, 50) fires: the fallback timer resolves the wait
RenderTimeout ==
    /\ rec.wait = "pending"
    /\ rec.timer
    /\ Commit([World EXCEPT !.r.wait = "resolved", !.r.timer = FALSE],
              <<"renderTimeout", 0>>)
    /\ UNCHANGED now

\* recordFrameByFrame resumes after its awaits
ContinueFrames ==
    /\ rec.wait = "resolved"
    /\ \E w \in {continueFrames(World, Val(rec.loop), site)} :
           Commit(w, <<"frameRecorded", Val(rec.loop).frame>>)
    /\ UNCHANGED now

\* the media recorder delivers its queued stop: a last dataavailable event, then
\* onstop runs finishRecording
MediaStop ==
    \E size \in {0, 1}, conversion \in Conversions :
        /\ rec.stopEvent
        /\ \E w \in {finishRecording(dataAvailable([World EXCEPT !.r.stopEvent = FALSE],
                                                   size), conversion)} :
               Commit(w, <<"mediaStop", 0>>)
        /\ UNCHANGED now

\* the record button while no recording is in progress: the host found
\* recorder.isRecording false and calls startRecording(); the recorder exists
\* once a track has been loaded
RecordClick ==
    /\ gmap.trackData # <<>>
    /\ ~rec.isRecording
    /\ StartRecording

\* the play button while nothing is being recorded
PlayClick ==
    /\ ~rec.isRecording
    /\ Start

\* mediaRecorder.start(100): while it records, the media recorder delivers a
\* chunk of data every 100 ms
DataAvailable ==
    /\ rec.media = "recording"
    /\ Commit(dataAvailable(World, 1), <<"dataavailable", 0>>)
    /\ UNCHANGED now

\* time passes while playback is paused
AdvanceTime ==
    /\ anim.isPlaying
    /\ anim.isPaused
    /\ now < MaxTicks * FrameGap
    /\ now' = now + FrameGap
    /\ Commit(World, <<"wait", 0>>)

\* the replaced instance's view of the program: its own fields and callbacks,
\* the shared map
OldWorld ==
    [a |-> Val(old).a, m |-> gmap, q |-> Val(old).q, r |-> rec,
     calls |-> <<>>, poses |-> <<>>, thrown |-> 0]

\* the callbacks the replaced instance requested run first (they were requested
\* first); wo is the program as they leave it
runOldCallbacks(timestamp, env) ==
    IF IsNull(old) THEN World ELSE runCallbacks(OldWorld, Val(old).q, timestamp, env)

\* the current instance's callbacks then run on the map the old ones left
runAfterOld(wo, timestamp, env) ==
    runCallbacks([World EXCEPT !.m = wo.m], raf, timestamp, env)

\* the host renders a frame: the outstanding callbacks run with its timestamp
HostFrame ==
    /\ raf # {} \/ (~IsNull(old) /\ Val(old).q # {})
    /\ now < MaxTicks * FrameGap
    /\ now' = now + FrameGap
    /\ \E wo \in {runOldCallbacks(now + FrameGap, site)} :
           /\ old' = IF IsNull(old) THEN None
                     ELSE Some([a |-> wo.a, q |-> wo.q, poses |-> wo.poses])
           /\ \E w \in {runAfterOld(wo, now + FrameGap, site)} :
                  CommitCurrent(w, <<"frame", 0>>)

\* handleFile while an animation exists: the new track replaces the map's track
\* data, a new FlyoverAnimation (and VideoRecorder) replaces the old one in the
\* host's variables and receives the current settings; the old instance is not
\* stopped
Reload ==
    \E t \in Tracks :
        /\ gmap.trackData # <<>>
        /\ IsNull(old)
        /\ old' = Some([a |-> anim, q |-> raf, poses |-> <<>>])
        /\ anim' = [FlyoverAnimation EXCEPT !.speed = anim.speed, !.mode = anim.mode]
        /\ gmap' = [gmap EXCEPT !.trackData = t]
        /\ raf' = {}
        /\ rec' = VideoRecorder
        /\ calls' = <<>>
        /\ poses' = <<>>
        /\ thrown' = 0
        /\ lastOp' = <<"reload", 0>>
        /\ UNCHANGED <<now, site, fn>>

\* playback driven from the controls and the host's frames
Next ==
    \/ LoadTrack
    \/ Start
    \/ Pause
    \/ Resume
    \/ Stop
    \/ StepToProgress
    \/ AdvanceTime
    \/ HostFrame

Spec == Init /\ [][Next]_vars

\* playback with the video recorder driving the same animation
NextRec ==
    \/ LoadTrack
    \/ Start
    \/ Pause
    \/ Resume
    \/ Stop
    \/ StartRecording
    \/ StopRecording
    \/ AdvanceTime
    \/ HostFrame

SpecRec == Init /\ [][NextRec]_vars

\* the animation-mode radio buttons: animation.setMode(value)
Modes == {"follow", "birdseye"}
SetMode ==
    \E mode \in Modes :
        /\ gmap.trackData # <<>>
        /\ mode # anim.mode
        /\ Commit([World EXCEPT !.a.mode = mode], <<"setMode", 0>>)
        /\ UNCHANGED now

\* the surroundings change: terrain tiles become available or unavailable, the
\* free camera starts or stops failing
SetSite ==
    \E env \in Sites :
        /\ gmap.trackData # <<>>
        /\ env # site
        /\ site' = env
        /\ lastOp' = <<"site", 0>>
        /\ calls' = <<>>
        /\ poses' = <<>>
        /\ thrown' = 0
        /\ oldIdle
        /\ UNCHANGED <<anim, gmap, raf, now, rec, fn>>

\* playback in either mode while terrain and free camera come and go
NextSite ==
    \/ LoadTrack
    \/ SetMode
    \/ SetSite
    \/ Start
    \/ HostFrame

SpecSite == Init /\ [][NextSite]_vars

\* playback while a second GPX file is loaded
NextReload ==
    \/ LoadTrack
    \/ Reload
    \/ Start
    \/ Pause
    \/ HostFrame

SpecReload == Init /\ [][NextReload]_vars

\* animate reads the clock only through timestamp - this.lastTimestamp, so the
\* clock's origin may move by t
rebase(w, t) == [w EXCEPT !.a.lastTimestamp = @ - t]

\* a frame is due while a callback is outstanding; it comes FrameGap ms after the
\* previous one, and the clock's origin moves forward at every second frame
FrameDue ==
    /\ raf # {}
    /\ now' = IF now = 0 THEN FrameGap ELSE 0

\* the host renders the frame that is due
LiveFrame ==
    /\ FrameDue
    /\ \E w \in {rebase(runCallbacks(World, raf, now + FrameGap, site), now + FrameGap - now')} :
           Commit(w, <<"frame", 0>>)

\* an uninterrupted run: a track is loaded, a mode chosen, playback is started,
\* and the host keeps rendering frames
NextLive ==
    \/ LoadTrack
    \/ SetMode
    \/ Start
    \/ LiveFrame

\* the host never stops rendering frames while a callback is outstanding: the
\* clock cannot stand still forever while a frame is due
SpecLive == Init /\ [][NextLive]_vars /\ WF_now(FrameDue)

\* ------------------------------------------- functions applied on their own
\* a call that has not returned yet
Call(op, args) == [op |-> op, args |-> args, result |-> None]

\* fn is a call of op waiting to be applied / a call of op that has returned
pending(op) == ~IsNull(fn) /\ Val(fn).op = op /\ IsNull(Val(fn).result)
returned(op) == ~IsNull(fn) /\ Val(fn).op = op /\ ~IsNull(Val(fn).result)

\* the call returns v; the rest of the program is not involved
Return(v) ==
    /\ fn' = Some([Val(fn) EXCEPT !.result = Some(v)])
    /\ UNCHANGED programVars

\* cumulative-distance tables of n entries: 0 first, then each entry the previous
\* one plus a segment length; length 0 is a repeated track point
SegLengths == {0, 1, 2}
RECURSIVE TablesOf(_)
TablesOf(n) ==
    IF n = 1 THEN {<<0>>}
    ELSE {Append(t, t[Len(t)] + len) : t \in TablesOf(n - 1), len \in SegLengths}
DistanceTables == UNION {TablesOf(n) : n \in 2..MaxTableLen}

\* findSegmentAtDistance on every table, for every distance on the track
SegmentCalls ==
    UNION {{Call("findSegmentAtDistance", [distances |-> t, targetDistance |-> d]) :
                d \in 0..t[Len(t)]} : t \in DistanceTables}

FindSegmentAtDistance ==
    /\ pending("findSegmentAtDistance")
    /\ Return(findSegmentAtDistance(Val(fn).args.distances, Val(fn).args.targetDistance))

\* bearings on both sides of north and of south, in tenths of a degree
BearingSamples == {0, 10, 100, 900, 1800, 1810, 3590, 3599}

\* bearingDifference on every pair of sampled bearings
DifferenceCalls ==
    {Call("bearingDifference", [b1 |-> b1, b2 |-> b2]) : b1, b2 \in BearingSamples}

BearingDifference ==
    /\ pending("bearingDifference")
    /\ Return(bearingDifference(Val(fn).args.b1, Val(fn).args.b2))

\* an instance that has smoothed at least one bearing since its last reset: the
\* previous smoothed bearing and the raw bearings kept in the history
SmoothingStates ==
    {[FlyoverAnimation EXCEPT !.speed = sp, !.lastBearing = Some(last), !.bearingHistory = h] :
        sp \in Speeds, last \in BearingSamples,
        h \in {<<b>> : b \in BearingSamples} \cup {<<b, c>> : b, c \in BearingSamples}}

\* smoothBearing on every such instance, for every sampled raw bearing
SmoothBearingCalls ==
    {Call("smoothBearing", [a |-> a, newBearing |-> b]) : a \in SmoothingStates, b \in BearingSamples}

SmoothBearing ==
    /\ pending("smoothBearing")
    /\ Return(smoothBearing(Val(fn).args.a, Val(fn).args.newBearing))

\* a track below sea level
TrackLow == <<Pt(0, -430), Pt(640, -400)>>
LosTracks == {TrackTwo, TrackBack, TrackLow}

\* calculateLineOfSightClearance from a camera point to a look-at point
\* cameraDistance + lookAtDistance metres north or south of it, over every
\* track and terrain, with the program's sample count and a small one
LineOfSightCalls ==
    {Call("calculateLineOfSightClearance",
          [points |-> t, terrain |-> tr, cameraLat |-> c,
           lookAtLat |-> c + d * (cameraDistance + lookAtDistance),
           lookAtAlt |-> alt, numSamples |-> n]) :
        t \in LosTracks, tr \in TerrainStates, c \in {-150, 0, 100, 330},
        d \in {-1, 1}, alt \in {-640, -300, 5, 105, 230}, n \in {5, losSamples}}

CalculateLineOfSightClearance ==
    /\ pending("calculateLineOfSightClearance")
    /\ Return(calculateLineOfSightClearance(Val(fn).args.points, Val(fn).args.terrain,
                  0, Val(fn).args.cameraLat, 0, Val(fn).args.lookAtLat,
                  Val(fn).args.lookAtAlt, Val(fn).args.numSamples))

\* tracks of n points: each point lies a step north or south of the previous one
\* and 100 m higher, or repeats its position (a segment of length 0)
TrackSteps == {-480, 0, 640}
RECURSIVE TracksOf(_)
TracksOf(n) ==
    IF n = 1 THEN {<<Pt(0, 0)>>}
    ELSE {Append(t, Pt(t[Len(t)].lat + step, t[Len(t)].ele + 100)) :
              t \in TracksOf(n - 1), step \in TrackSteps}
SampleTracks == UNION {TracksOf(n) : n \in 2..MaxTrackLen}

\* getPointAtProgress's raw position (clamp, target distance, segment, fraction,
\* interpolation) on a new instance, for every track and every progress in [0, 1]
RawPositionCalls ==
    {Call("getPointAtProgress", [points |-> t, progress |-> p]) :
        t \in SampleTracks, p \in 0..PScale}

\* the raw position of the call: the distance index is built first, as
\* getPointAtProgress does on an instance that has none
rawSample(a, points, progress) ==
    sampleAt(a, points, (Max(0, Min(PScale, progress)) * a.totalDistance) \div PScale)

GetPointAtProgress ==
    /\ pending("getPointAtProgress")
    /\ Return(rawSample(initializeDistanceData(FlyoverAnimation, Val(fn).args.points),
                        Val(fn).args.points, Val(fn).args.progress))

\* getCameraPosition in either mode, for a track position on or beside every
\* track, below sea level and high above it, heading north or south, on every
\* terrain, with the free camera working or not, on an instance that has no
\* previous camera altitude, a lower one or a higher one
CameraCalls ==
    {Call("getCameraPosition",
          [a |-> [FlyoverAnimation EXCEPT !.mode = mode, !.lastCameraAltitude = last],
           trackPosition |-> [position |-> Pt(lat, ele), bearing |-> b],
           points |-> t, env |-> env]) :
        mode \in Modes, last \in {None, Some(100), Some(2000)},
        lat \in {0, 320, 640}, ele \in {-430, 0, 50, 400}, b \in {0, 180 * Deg},
        t \in LosTracks, env \in {e \in Sites : e.freeCamera # "applyThrows"}}

GetCameraPosition ==
    /\ pending("getCameraPosition")
    /\ Return(getCameraPosition(Val(fn).args.a, Val(fn).args.trackPosition,
                                Val(fn).args.points, Val(fn).args.env))

FnCalls == SegmentCalls \cup DifferenceCalls \cup SmoothBearingCalls \cup LineOfSightCalls \cup RawPositionCalls \cup CameraCalls

\* one function of the program is called with arguments drawn from FnCalls
InitFn ==
    /\ Constructed
    /\ \E c \in FnCalls : fn = Some(c)

NextFn ==
    \/ FindSegmentAtDistance
    \/ BearingDifference
    \/ SmoothBearing
    \/ CalculateLineOfSightClearance
    \/ GetPointAtProgress
    \/ GetCameraPosition

SpecFn == InitFn /\ [][NextFn]_vars

\* real-time recording: startRecording() drives the animation, whose completion
\* stops the recorder; the user clicks nothing while a recording is in
\* progress. The host renders every frame that is due and the media recorder
\* delivers its events
NextCapture ==
    \/ LoadTrack
    \/ PlayClick
    \/ RecordClick
    \/ LiveFrame
    \/ DataAvailable
    \/ MediaStop

SpecCapture ==
    Init /\ [][NextCapture]_vars
         /\ WF_now(FrameDue) /\ WF_vars(DataAvailable) /\ WF_vars(MediaStop)

\* frame-by-frame recording: the loop of recordFrameByFrame, its render waits,
\* the stop button and the media recorder's stop event. The fallback timer of a
\* pending wait fires; nothing is assumed of the render event
NextFrames ==
    \/ LoadTrack
    \/ RecordFrameByFrame
    \/ RenderEvent
    \/ RenderTimeout
    \/ ContinueFrames
    \/ StopRecording
    \/ MediaStop

SpecFrames == Init /\ [][NextFrames]_vars /\ WF_vars(RenderTimeout)

\* ------------------------------------------------------------ properties
\* the controller's own fields: the animation without the host's callback slots
controllerState(a) == [a EXCEPT !.onProgress = "none", !.onComplete = "none", !.onFrame = "none"]

\* the controller states of the playback state machine
Playing == anim.isPlaying /\ ~anim.isPaused
Paused == anim.isPlaying /\ anim.isPaused

\* number of onComplete invocations among the callbacks an operation made
completions(cs) == Cardinality({i \in DOMAIN cs : cs[i][1] = "onComplete"})

\* progress after a tick that finds `elapsed` ms on the clock:
\* progress + elapsed * 160 * speed / totalDistance, clamped to 1
tickTarget(a, elapsed) ==
    Min(PScale, a.progress
                + (((baseSpeedMps * a.speed * elapsed) \div 1000) * PScale) \div a.totalDistance)

\* C1: start() called while the track has fewer than 2 points changes nothing:
\* progress, isPlaying/isPaused, the distance index, the smoothing state and the
\* pending-tick handle, the map and the frame queue are as before, and no pose
\* and no callback is emitted.
C1_StartFailsFast ==
    [][(lastOp'[1] = "start" /\ Len(gmap.trackData) < 2)
       => /\ controllerState(anim') = controllerState(anim)
          /\ gmap' = gmap
          /\ raf' = raf
          /\ poses' = <<>>
          /\ calls' = <<>>]_vars

C1_Reached ==
    /\ lastOp[1] = "start"
    /\ Len(gmap.trackData) = 1
    /\ ~anim.isPlaying
    /\ raf = {}

\* C2: start() called when not playing on a track of at least 2 points rebuilds
\* the distance index from the current points, sets progress to 0 and enters
\* Playing with one tick scheduled; the run's first frame is computed from empty
\* smoothing state: the smoothed position is the first track point itself, the
\* bearing history holds the one bearing of that frame, and the camera altitude
\* is the altitude remembered for smoothing.
C2_StartEntersPlaying ==
    [][(lastOp'[1] = "start" /\ ~anim.isPlaying /\ Len(gmap.trackData) >= 2)
       => LET points == gmap.trackData
              table == anim'.cumulativeDistances
          IN /\ anim'.distanceDataInitialized
             /\ Len(table) = Len(points)
             /\ table[1] = 0
             /\ \A i \in 1..(Len(points) - 1) :
                    table[i + 1] = table[i] + calculateDistance(points[i], points[i + 1])
             /\ anim'.totalDistance = table[Len(table)]
             /\ anim'.progress = 0
             /\ anim'.isPlaying
             /\ ~anim'.isPaused
             /\ anim'.lastTimestamp = now
             /\ ~IsNull(anim'.animationFrame)
             /\ Val(anim'.animationFrame) \in raf'
             /\ Len(poses') = 1
             /\ poses'[1].marker = Some(points[1])
             /\ anim'.lastSmoothedPosition = Some(points[1])
             /\ ~IsNull(anim'.lastBearing)
             /\ anim'.bearingHistory = <<Val(anim'.lastBearing)>>
             /\ anim'.lastCameraAltitude = Some(poses'[1].camera.alt)]_vars

C2_Reached ==
    /\ lastOp[1] = "start"
    /\ Playing
    /\ anim.progress = 0
    /\ Len(poses) = 1
    /\ Len(gmap.trackData) = 3
    /\ anim.lastSmoothedPosition = Some(gmap.trackData[1])

\* C3: a start() call made while the controller is Playing or Paused has no
\* effect: progress, smoothing state, the distance index, the pause flag and the
\* scheduled tick are untouched and nothing is emitted.
C3_StartWhileRunningIgnored ==
    [][(lastOp'[1] = "start" /\ anim.isPlaying)
       => /\ controllerState(anim') = controllerState(anim)
          /\ gmap' = gmap
          /\ raf' = raf
          /\ poses' = <<>>
          /\ calls' = <<>>]_vars

C3_Reached ==
    /\ lastOp[1] = "start"
    /\ Paused
    /\ anim.progress > 0
    /\ poses = <<>>

\* C4 as stated: every start() call on a track of at least 2 points, the second
\* of two calls in a row included, resets progress to 0 and leaves freshly
\* cleared smoothing state.
C4_EveryStartResets ==
    [][(lastOp'[1] = "start" /\ Len(gmap.trackData) >= 2)
       => /\ anim'.progress = 0
          /\ Len(anim'.bearingHistory) = 1
          /\ anim'.lastSmoothedPosition = Some(gmap.trackData[1])]_vars

\* C4 amended: a start() call made after the previous run has ended (by
\* completion or stop(), or none has begun) leaves, whatever happened before,
\* the state that start() leaves on a newly constructed animation with the same
\* settings at the same clock value: same controller fields (up to the tick's
\* handle), same pose, same callbacks.
C4_RestartEqualsFirstStart ==
    [][(lastOp'[1] = "start" /\ ~anim.isPlaying /\ Len(gmap.trackData) >= 2)
       => LET fresh == [a |-> [FlyoverAnimation EXCEPT !.speed = anim.speed,
                                                       !.mode = anim.mode],
                        m |-> [gmap EXCEPT !.markerSource = FALSE, !.markerVisible = FALSE],
                        q |-> {}, r |-> rec,
                        calls |-> <<>>, poses |-> <<>>, thrown |-> 0]
          IN \E first \in {start(hostCallbacks(fresh), now, site)} :
                 /\ [anim' EXCEPT !.animationFrame = None]
                    = [first.a EXCEPT !.animationFrame = None]
                 /\ gmap' = first.m
                 /\ poses' = first.poses
                 /\ calls' = first.calls]_vars

C4_Reached ==
    /\ lastOp[1] = "start"
    /\ Playing
    /\ now > 0
    /\ anim.lastTimestamp = now
    /\ Len(poses) = 1
    /\ Len(anim.bearingHistory) = 1

\* C5: pause() in Playing sets the pause flag and changes nothing else (progress
\* and smoothing state included); while Paused a host frame (running a tick
\* scheduled before pause()), the passing of time and a further pause() change no
\* field of the controller, apply no pose and invoke no callback.
C5_PauseFreezes ==
    [][/\ (lastOp'[1] = "pause" /\ Playing)
          => /\ anim' = [anim EXCEPT !.isPaused = TRUE]
             /\ raf' = raf
             /\ poses' = <<>>
             /\ calls' = <<>>
       /\ (lastOp'[1] \in {"frame", "wait", "pause"} /\ Paused)
          => /\ anim' = anim
             /\ poses' = <<>>
             /\ calls' = <<>>]_vars

C5_Reached ==
    /\ lastOp[1] = "frame"
    /\ Paused
    /\ anim.progress > 0
    /\ raf = {}

\* C6: resume() in Paused returns to Playing with progress unchanged and the
\* smoothing state kept (the bearing history is the old one plus the bearing of
\* the frame resume() renders), and sets the clock reference to the time of the
\* call; the tick after resume() advances progress by the time since resume()
\* only, however long the pause lasted.
C6_ResumeResetsClockOnly ==
    [][/\ (lastOp'[1] = "resume" /\ Paused)
          => /\ anim'.isPlaying
             /\ ~anim'.isPaused
             /\ anim'.progress = anim.progress
             /\ anim'.lastTimestamp = now
             /\ Len(anim'.bearingHistory) = Len(anim.bearingHistory) + 1
             /\ SubSeq(anim'.bearingHistory, 1, Len(anim.bearingHistory))
                = anim.bearingHistory
             /\ ~IsNull(anim'.lastBearing)
             /\ ~IsNull(anim'.lastSmoothedPosition)
             /\ ~IsNull(anim'.lastCameraAltitude)
       /\ (lastOp'[1] = "frame" /\ lastOp[1] = "resume" /\ Playing /\ anim.totalDistance > 0)
          => anim'.progress = tickTarget(anim, FrameGap)]_vars

C6_Reached ==
    /\ lastOp[1] = "resume"
    /\ lastOp[2] > 0
    /\ Playing
    /\ anim.lastTimestamp = now
    /\ anim.progress > 0
    /\ anim.progress < PScale

C9_ProgressInRange == anim.progress >= 0 /\ anim.progress <= PScale

\* C10 as stated: while a run stays alive (the controller is playing before and
\* after the operation) no operation makes progress smaller: pause, resume, a
\* tick, and starting a recording on the same animation.
C10_ProgressMonotoneInRun ==
    [][(anim.isPlaying /\ anim'.isPlaying) => anim'.progress >= anim.progress]_vars

\* the raw (unsmoothed) track position at progress p, as getPointAtProgress
\* interpolates it on the instance's distance index
rawPositionAt(a, points, p) ==
    sampleAt(a, points, (Max(0, Min(PScale, p)) * a.totalDistance) \div PScale).pos

\* C11: stepToProgress(p) stores p as the progress; exactly when p = 0 or p is
\* below the progress stored before the call it clears the smoothing state first,
\* so the frame is computed from empty smoothing (one-entry bearing history,
\* smoothed position equal to the raw position, altitude seeded by the frame);
\* otherwise the frame continues the existing smoothing state (the bearing
\* history is the old one plus one entry, the smoothed position is eased from
\* the old one).
C11_StepResetsExactlyWhenBackward ==
    [][(lastOp'[1] = "stepToProgress" /\ Len(gmap.trackData) >= 2)
       => LET p == lastOp'[2]
              raw == rawPositionAt(anim', gmap.trackData, p)
          IN /\ anim'.progress = p
             /\ Len(poses') = 1
             /\ poses'[1].marker = Some(raw)
             /\ IF p = 0 \/ p < anim.progress
                THEN /\ Len(anim'.bearingHistory) = 1
                     /\ anim'.lastBearing = Some(anim'.bearingHistory[1])
                     /\ anim'.lastSmoothedPosition = Some(raw)
                     /\ anim'.lastCameraAltitude = Some(poses'[1].camera.alt)
                     /\ gmap'.markerSource /\ gmap'.markerVisible
                ELSE /\ Len(anim'.bearingHistory) = Len(anim.bearingHistory) + 1
                     /\ SubSeq(anim'.bearingHistory, 1, Len(anim.bearingHistory))
                        = anim.bearingHistory
                     /\ anim'.lastSmoothedPosition = Some(smoothPosition(anim, raw).pos)]_vars

C11_Reached ==
    /\ lastOp = <<"stepToProgress", 18>>
    /\ anim.progress = 18
    /\ Len(anim.bearingHistory) = 2
    /\ ~IsNull(anim.lastSmoothedPosition)
    /\ Val(anim.lastSmoothedPosition) # Val(poses[1].marker)

\* what a stepped session carries from one stepToProgress call to the next: the
\* stored progress and the smoothing state
steppingState(a) ==
    [progress |-> a.progress, lastCameraAltitude |-> a.lastCameraAltitude,
     lastBearing |-> a.lastBearing, bearingHistory |-> a.bearingHistory,
     lastSmoothedPosition |-> a.lastSmoothedPosition]

\* a newly constructed instance with the settings of a, on the loaded track, with
\* no marker on the map, an empty frame queue and an idle recorder
newInstanceLike(a) ==
    [a |-> [FlyoverAnimation EXCEPT !.speed = a.speed, !.mode = a.mode],
     m |-> [gmap EXCEPT !.markerSource = FALSE, !.markerVisible = FALSE],
     q |-> {}, r |-> [isRecording |-> FALSE, media |-> "none"],
     calls |-> <<>>, poses |-> <<>>, thrown |-> 0]

\* the same, holding the stepping state of a and nothing else of it
twinOf(a) ==
    [newInstanceLike(a) EXCEPT !.a.progress = a.progress,
                               !.a.lastCameraAltitude = a.lastCameraAltitude,
                               !.a.lastBearing = a.lastBearing,
                               !.a.bearingHistory = a.bearingHistory,
                               !.a.lastSmoothedPosition = a.lastSmoothedPosition]

altitudeCalls == {Val(poses[i].altitude) : i \in {j \in DOMAIN poses : ~IsNull(poses[j].altitude)}}

\* C13: every smoothAltitude(target) call returns a value >= target; with no prior
\* state it returns target; when target exceeds the last smoothed altitude it
\* returns exactly target; when target is not higher it returns
\* last + 0.05 * (target - last), so the altitude drops by at most 0.05 of the gap
\* in one frame; and the value returned is the one remembered for the next call.
C13_AltitudeSmoothingAsymmetric ==
    /\ \A c \in altitudeCalls :
           /\ c.result >= c.target
           /\ IsNull(c.last) => c.result = c.target
           /\ (~IsNull(c.last) /\ c.target > Val(c.last)) => c.result = c.target
           /\ (~IsNull(c.last) /\ c.target <= Val(c.last))
              => /\ c.result = Val(c.last) + MulDiv(c.target - Val(c.last), 5, 100)
                 /\ (Val(c.last) - c.result) * 100 <= 5 * (Val(c.last) - c.target)
    /\ (poses # <<>> /\ ~IsNull(poses[Len(poses)].altitude))
       => anim.lastCameraAltitude = Some(Val(poses[Len(poses)].altitude).result)

C13_Reached ==
    \E c \in altitudeCalls :
        /\ ~IsNull(c.last)
        /\ c.target < Val(c.last)
        /\ c.result < Val(c.last)
        /\ c.result > c.target

\* pos lies between two consecutive track points, coordinate by coordinate
onSegment(pos, points) ==
    \E i \in 1..(Len(points) - 1) :
        /\ pos.lat >= Min(points[i].lat, points[i + 1].lat)
        /\ pos.lat <= Max(points[i].lat, points[i + 1].lat)
        /\ pos.lon >= Min(points[i].lon, points[i + 1].lon)
        /\ pos.lon <= Max(points[i].lon, points[i + 1].lon)
        /\ pos.ele >= Min(points[i].ele, points[i + 1].ele)
        /\ pos.ele <= Max(points[i].ele, points[i + 1].ele)

\* C14: on every frame rendered (tick or stepToProgress) the marker receives the
\* raw interpolated position for the current progress, which lies on a segment
\* of the track, while the camera is placed from the smoothed position (in
\* follow mode cameraDistance behind it along the smoothed bearing).
C14_MarkerOnTrack ==
    /\ \A i \in DOMAIN poses :
           /\ ~IsNull(poses[i].marker)
           /\ onSegment(Val(poses[i].marker), gmap.trackData)
    /\ (poses # <<>> /\ lastOp[1] \in {"start", "resume", "frame", "stepToProgress"})
       => LET frame == poses[Len(poses)]
              behind == offsetPoint(Val(anim.lastSmoothedPosition), cameraDistance,
                                    (Val(anim.lastBearing) + 180 * Deg) % (360 * Deg))
          IN /\ frame.marker = Some(rawPositionAt(anim, gmap.trackData, anim.progress))
             /\ frame.camera.lon = behind.lon
             /\ frame.camera.lat = behind.lat

C14_Reached ==
    /\ lastOp[1] = "frame"
    /\ poses # <<>>
    /\ anim.progress > 0
    /\ anim.progress < PScale
    /\ Val(anim.lastSmoothedPosition) # Val(poses[Len(poses)].marker)
    /\ Val(poses[Len(poses)].marker).lat > Val(anim.lastSmoothedPosition).lat

\* the altitude bird's-eye mode requires when every terrain lookup (centre and
\* the eight ring samples) gives the elevation of the nearest track point
birdseyeAltitudeFromTrack(a, position, points) ==
    SetMax({getTrackElevationNear(points, position.lon, position.lat)} \cup
           {LET off == metersToLatLon(sampleRadius, k * 45 * Deg)
            IN getTrackElevationNear(points, position.lon + off.lonOffset,
                                     position.lat + off.latOffset) : k \in 0..7})
    + a.cameraAltitude * 3 + minTerrainClearance

\* C15 as stated: while no terrain elevation is available every frame is still
\* computed and applied, and its terrain lookups give the nearest track
\* elevation: in bird's-eye mode the camera altitude is the one required over
\* the nearest-track elevations of the centre and the ring samples.
C15_TerrainFallbackIsTrackElevation ==
    (/\ lastOp[1] \in {"start", "frame"}
     /\ site.terrain = "unavailable"
     /\ site.freeCamera = "ok"
     /\ thrown = 0
     /\ poses # <<>>)
    => (anim.mode = "birdseye"
        => poses[Len(poses)].camera.alt
           >= birdseyeAltitudeFromTrack(anim, Val(anim.lastSmoothedPosition), gmap.trackData))

\* C16 as stated: a tick of a Playing run made while building or applying the
\* free camera pose fails still applies a pose (the fallback one), fires
\* onProgress, and leaves the run Playing with its next tick scheduled, or
\* completed.
C16_FreeCameraFailureNonFatal ==
    [][(lastOp'[1] = "frame" /\ Playing /\ site.freeCamera # "ok")
       => /\ thrown' = 0
          /\ poses' # <<>>
          /\ \A i \in DOMAIN poses' : poses'[i].camera.kind = "fallback"
          /\ \E i \in DOMAIN calls' : calls'[i][1] = "onProgress"
          /\ \/ ~anim'.isPlaying /\ anim'.progress = PScale
             \/ /\ anim'.isPlaying
                /\ ~IsNull(anim'.animationFrame)
                /\ Val(anim'.animationFrame) \in raf']_vars

\* number of invocations of callback `name` among the callbacks an operation made
invocations(cs, name) == Cardinality({i \in DOMAIN cs : cs[i][1] = name})

\* C17 as stated: a host frame of a Playing run runs one tick, which invokes
\* onProgress exactly once, with the progress the tick reached; no callback
\* fires twice between two consecutive host frames.
C17_CallbacksOncePerFrame ==
    [][(lastOp'[1] = "frame" /\ Playing)
       => /\ invocations(calls', "onProgress") = 1
          /\ invocations(calls', "onFrame") <= 1
          /\ invocations(calls', "onComplete") <= 1
          /\ \A i \in DOMAIN calls' :
                 calls'[i][1] = "onProgress" => calls'[i][2] = anim'.progress]_vars

\* C19 as stated: in every reachable state at most one requestAnimationFrame
\* callback of the instance is outstanding that will execute a frame, so a host
\* frame executes at most one tick of the animation.
C19_OneTickScheduled ==
    /\ Playing => Cardinality(raf) <= 1
    /\ lastOp[1] = "frame" => Len(poses) <= 1

\* an instance has a live playback loop: it is playing, not paused, and a frame
\* callback of it is outstanding
liveLoop(a, q) == a.isPlaying /\ ~a.isPaused /\ q # {}

\* C18 as stated: once handleFile has created a new instance the replaced one no
\* longer ticks or applies poses to the map, and never do both instances have a
\* live playback loop.
C18_SingleOwner ==
    ~IsNull(old)
    => /\ Val(old).poses = <<>>
       /\ ~(liveLoop(Val(old).a, Val(old).q) /\ liveLoop(anim, raf))

\* C20: playback terminates: a run started by start() that is never paused or
\* stopped and keeps receiving host frames with positive elapsed time eventually
\* reaches progress 1, fires onComplete and leaves Playing, whatever the track,
\* a track of total distance 0 included.
C20_PlaybackTerminates ==
    (anim.isPlaying /\ ~anim.isPaused)
        ~> (~anim.isPlaying /\ anim.progress >= PScale /\ completions(calls) = 1)

\* C22: findSegmentAtDistance returns, for every distance table D of n >= 2
\* entries and every distance d in [0, totalDistance], an index i with
\* 0 <= i <= n - 2 and D[i] <= d <= D[i+1], where d < D[i+1] unless d is the end
\* of the track; tables with equal consecutive entries included.
C22_SegmentContainsDistance ==
    returned("findSegmentAtDistance") =>
        LET D == Val(fn).args.distances
            d == Val(fn).args.targetDistance
            i == Val(Val(fn).result)
        IN /\ 0 <= i
           /\ i <= Len(D) - 2
           /\ D[i + 1] <= d
           /\ d <= D[i + 2]
           /\ d < D[i + 2] \/ d = D[Len(D)]

\* the lookup of a distance that lies on a repeated track point, in the middle of
\* the track
C22_Reached ==
    /\ returned("findSegmentAtDistance")
    /\ Val(fn).args.distances = <<0, 1, 1, 3>>
    /\ Val(fn).args.targetDistance = 1
    /\ Val(Val(fn).result) = 2

\* the angle between two bearings, in tenths of a degree (0 .. 1800)
angleBetween(x, y) == Min((x - y) % (360 * Deg), (y - x) % (360 * Deg))

\* the circular mean smoothBearing takes over the history once newBearing is in it
historyMean(a, newBearing) ==
    LET history == ShiftTo(Append(a.bearingHistory, newBearing),
                           Min(60, Sqrt(400 * speedFactorOf(a))))
    IN normalizeBearing(Atan2(WeightedSum(history, 1, TRUE), WeightedSum(history, 1, FALSE)))

\* C29: bearing continuity: after the first call following a reset, smoothBearing
\* returns a bearing in [0, 360) whose angle to the previous smoothed bearing is
\* at most the smoothing factor times the angle between that bearing and the
\* history's mean, so raw bearings that cross north cause no wraparound jump;
\* bearingDifference returns a value in (-180, 180].
C29_BearingContinuity ==
    /\ returned("bearingDifference") =>
           /\ Val(Val(fn).result) > -180 * Deg
           /\ Val(Val(fn).result) <= 180 * Deg
    /\ returned("smoothBearing") =>
           LET a == Val(fn).args.a
               last == Val(a.lastBearing)
               out == Val(Val(fn).result).bearing
               factor == Max(150, Sqrt(360000 \div speedFactorOf(a)))
           IN /\ out >= 0
              /\ out < 360 * Deg
              /\ Val(Val(Val(fn).result).a.lastBearing) = out
              /\ angleBetween(last, out) * 10000
                     <= factor * angleBetween(last, historyMean(a, Val(fn).args.newBearing))

\* the smoothed bearing crosses north: it was just west of north, the raw
\* bearings have turned east of north, and the result is just east of north
C29_Reached ==
    /\ returned("smoothBearing")
    /\ Val(Val(fn).args.a.lastBearing) >= 3590
    /\ Val(fn).args.newBearing <= 900
    /\ Val(Val(fn).result).bearing < 100
    /\ Val(Val(fn).result).bearing # Val(Val(fn).args.a.lastBearing)

\* the samples calculateLineOfSightClearance takes: i = 0 .. numSamples with
\* t = i / numSamples < 0.98
sightSamples(numSamples) == {i \in 0..numSamples : i * 100 < 98 * numSamples}

\* terrainAlt at sample i of the call c
sightTerrain(c, i) ==
    queryTerrainElevation(c.terrain, 0,
        c.cameraLat + MulDiv(c.lookAtLat - c.cameraLat, i, c.numSamples),
        getTrackElevationNear(c.points, 0,
            c.cameraLat + MulDiv(c.lookAtLat - c.cameraLat, i, c.numSamples)))

\* the largest (terrainAlt + clearance - lookAtAlt * t) / (1 - t) over the samples
sightMax(c) ==
    SetMax({MulDiv((sightTerrain(c, i) + minTerrainClearance) * c.numSamples - c.lookAtAlt * i,
                   1, c.numSamples - i) : i \in sightSamples(c.numSamples)})

\* C24: calculateLineOfSightClearance returns the maximum, over the samples
\* i = 0 .. N with t = i / N < 0.98, of
\* (terrainAlt(t) + clearance - lookAtAlt * t) / (1 - t).
C24_ReturnsSampleMaximum ==
    returned("calculateLineOfSightClearance") =>
        Val(Val(fn).result) = sightMax(Val(fn).args)

\* v lies between x and y
between(v, x, y) == v >= Min(x, y) /\ v <= Max(x, y)

\* C26: for every progress in [0, 1] on a track of at least 2 points the
\* interpolation fraction t of the raw position satisfies 0 <= t <= 1 and is 0
\* when the containing segment has length 0, so the raw position lies between
\* the two consecutive track points of the returned segment; a track of total
\* distance 0 included.
C26_FractionInUnitInterval ==
    returned("getPointAtProgress") =>
        LET points == Val(fn).args.points
            r == Val(Val(fn).result)
            p1 == points[r.index + 1]
            p2 == points[r.index + 2]
        IN /\ r.defined
           /\ r.index >= 0
           /\ r.index <= Len(points) - 2
           /\ r.td > 0
           /\ r.tn >= 0
           /\ r.tn <= r.td
           /\ calculateDistance(p1, p2) = 0 => r.tn = 0
           /\ between(r.pos.lat, p1.lat, p2.lat)
           /\ between(r.pos.lon, p1.lon, p2.lon)
           /\ between(r.pos.ele, p1.ele, p2.ele)

\* a progress inside a track whose points all coincide: the segment has length 0
\* and the fraction is 0
C26_Reached ==
    /\ returned("getPointAtProgress")
    /\ Len(Val(fn).args.points) = 3
    /\ \A i \in 1..3 : Val(fn).args.points[i].lat = 0
    /\ Val(fn).args.progress = 6
    /\ Val(Val(fn).result).tn = 0
    /\ Val(Val(fn).result).pos.lat = 0

\* the distance index of instance a is a cumulative-distance table of the track
\* points: one entry per point, 0 first, non-decreasing, totalDistance last
indexFits(a, points) ==
    LET D == a.cumulativeDistances
    IN /\ Len(D) = Len(points)
       /\ Len(D) >= 1
       /\ D[1] = 0
       /\ \A i \in 1..(Len(D) - 1) : D[i] <= D[i + 1]
       /\ a.totalDistance = D[Len(D)]

\* C23: whenever an instance computes a frame (by a tick or by stepToProgress)
\* its distance index satisfies D[0] = 0, D[i] <= D[i+1], totalDistance = D[n-1],
\* and has as many entries as the track provider has points: the index is
\* recomputed when the track changes between frames.
C23_IndexMatchesTrack ==
    /\ poses # <<>> => indexFits(anim, gmap.trackData)
    /\ (~IsNull(old) /\ Val(old).poses # <<>>) => indexFits(Val(old).a, gmap.trackData)

\* the terrain elevation under the camera of pose p in the call c
groundUnderCamera(c, p) ==
    queryTerrainElevation(c.env.terrain, p.lon, p.lat, MulDiv(c.trackPosition.position.ele, 3, 2))

\* the altitude the sight line of pose p requires in the call c
sightLineAltitude(c, p) ==
    calculateLineOfSightClearance(c.points, c.env.terrain, p.lon, p.lat,
                                  p.lookLon, p.lookLat, p.lookAlt, losSamples)

\* a follow-mode call of getCameraPosition has returned a free pose
followPose ==
    /\ returned("getCameraPosition")
    /\ Val(fn).args.a.mode = "follow"
    /\ Val(Val(fn).result).pose.kind = "free"

\* C25: in follow mode the raw required altitude is
\* max(lineOfSightAlt + cameraAltitude, groundUnderCamera + cameraAltitude + clearance),
\* the altitude placed in the free pose is that value passed through altitude
\* smoothing, and so the camera altitude of every follow-mode frame is at least
\* the ground elevation under the camera plus the offset plus the clearance.
C25_FollowAltitudeAboveGround ==
    followPose =>
        LET c == Val(fn).args
            r == Val(Val(fn).result)
            floor == groundUnderCamera(c, r.pose) + c.a.cameraAltitude + minTerrainClearance
        IN /\ r.rawAltitude = Max(sightLineAltitude(c, r.pose) + c.a.cameraAltitude, floor)
           /\ r.pose.alt = smoothAltitude(c.a, r.rawAltitude).alt
           /\ r.a.lastCameraAltitude = Some(r.pose.alt)
           /\ r.pose.alt >= floor

\* a follow-mode frame whose altitude is decided by the ground under the camera,
\* the sight line asking for less and the previous altitude being lower
C25_Reached ==
    /\ followPose
    /\ sightLineAltitude(Val(fn).args, Val(Val(fn).result).pose)
           < groundUnderCamera(Val(fn).args, Val(Val(fn).result).pose) + minTerrainClearance
    /\ ~IsNull(Val(fn).args.a.lastCameraAltitude)
    /\ Val(Val(fn).result).pose.alt
           = groundUnderCamera(Val(fn).args, Val(Val(fn).result).pose)
             + Val(fn).args.a.cameraAltitude + minTerrainClearance

\* C28: in every reachable state the pause flag is set only during an active
\* run: isPaused implies isPlaying, after any sequence of start, pause, resume,
\* stop, ticks and completion.
C28_PausedOnlyWhilePlaying == anim.isPaused => anim.isPlaying

\* C30: a pending render wait of the frame-by-frame recording is resolved, by
\* the render event or by the fallback timer
C30_RenderWaitResolves == (rec.wait = "pending") ~> (rec.wait = "resolved")

\* a wait resolved by the fallback timer, no render event having arrived
C30_Reached == lastOp[1] = "renderTimeout" /\ rec.wait = "resolved"

\* C27: a recording attempt invokes onComplete or onError at most once
C27_OneTerminalCallback == rec.terminal <= 1

\* C21: a recording that startRecording() began ends without the stop button:
\* isRecording becomes false and onComplete or onError is delivered
C21_RecordingTerminates == rec.isRecording ~> (~rec.isRecording /\ rec.terminal = 1)

====
